---- MODULE Spec2Model ----
(***************************************************************************)
(* A model of ai_agent.py: the task lifecycle (create / list / view /      *)
(* edit / done / delete with normalize_status_on_read) and the partial     *)
(* note editor (edit_note).  Text is modelled as sequences of one-         *)
(* character strings so that strip(), splitlines(), "\n".join() and int()  *)
(* are computed the way Python computes them.                              *)
(***************************************************************************)
EXTENDS Integers, Sequences, FiniteSets, TLC

VARIABLES clock, out, running, tasks, nextTaskId, notes, nextNoteId

vars == <<clock, out, running, tasks, nextTaskId, notes, nextNoteId>>

\* What the task commands leave alone, and what the note commands leave alone.
notTaskVars == <<running, notes, nextNoteId>>
notNoteVars == <<running, tasks, nextTaskId>>

(* ------------------------------ bounds --------------------------------- *)
MaxTasks == 1
MaxClock == 2

(* ------------------------- text helpers -------------------------------- *)
\* Characters str.strip() removes (Python whitespace); "\n" and "\f" are
\* also the line boundaries str.splitlines() splits at.
IsSpace(c) == c \in {" ", "\n", "\f"}

RECURSIVE LStrip(_)
LStrip(s) == IF s = <<>> THEN <<>>
             ELSE IF IsSpace(Head(s)) THEN LStrip(Tail(s)) ELSE s

RECURSIVE RStrip(_)
RStrip(s) == IF s = <<>> THEN <<>>
             ELSE IF IsSpace(s[Len(s)]) THEN RStrip(SubSeq(s, 1, Len(s) - 1)) ELSE s

\* str.strip()
Strip(s) == RStrip(LStrip(s))

IsDigit(c) == c \in {"0", "1", "2", "3", "4", "5", "6", "7", "8", "9"}

DigitVal(c) == CASE c = "0" -> 0 [] c = "1" -> 1 [] c = "2" -> 2 [] c = "3" -> 3
                 [] c = "4" -> 4 [] c = "5" -> 5 [] c = "6" -> 6 [] c = "7" -> 7
                 [] c = "8" -> 8 [] c = "9" -> 9

RECURSIVE DigitsVal(_)
DigitsVal(s) == IF s = <<>> THEN 0
                ELSE 10 * DigitsVal(SubSeq(s, 1, Len(s) - 1)) + DigitVal(s[Len(s)])

AllDigits(s) == s # <<>> /\ \A k \in 1..Len(s) : IsDigit(s[k])

\* int(text): surrounding whitespace is ignored, one optional sign, then
\* at least one digit; anything else raises ValueError (ok = FALSE).
ParseInt(text) ==
    LET s == Strip(text) IN
    IF s # <<>> /\ Head(s) \in {"-", "+"}
    THEN IF AllDigits(Tail(s))
         THEN [ok |-> TRUE,
               n  |-> IF Head(s) = "-" THEN 0 - DigitsVal(Tail(s)) ELSE DigitsVal(Tail(s))]
         ELSE [ok |-> FALSE, n |-> 0]
    ELSE IF AllDigits(s) THEN [ok |-> TRUE, n |-> DigitsVal(s)]
         ELSE [ok |-> FALSE, n |-> 0]

DigitChar(k) == CASE k = 0 -> "0" [] k = 1 -> "1" [] k = 2 -> "2" [] k = 3 -> "3"
                  [] k = 4 -> "4" [] k = 5 -> "5" [] k = 6 -> "6" [] k = 7 -> "7"
                  [] k = 8 -> "8" [] k = 9 -> "9"

(* --------------------------- deadlines --------------------------------- *)
\* A deadline column value: NULL, or the ISO text of an aware datetime,
\* i.e. a wall-clock reading t together with its UTC offset off.
NullDeadline == [null |-> TRUE, t |-> 0, off |-> 0]

\* What the user can type at a deadline prompt: nothing, text dateutil
\* cannot parse, a date-time without a zone, a date-time with a zone.
DateInputs ==
    {[kind |-> "empty", t |-> 0, off |-> 0], [kind |-> "bad", t |-> 0, off |-> 0]}
    \cup {[kind |-> "naive", t |-> 3, off |-> 0], [kind |-> "aware", t |-> 1, off |-> 1]}

\* Stands for a deadline prompt that is not reached.
NoDateInput == [kind |-> "empty", t |-> 0, off |-> 0]

\* dateparser.parse(s): raises on empty or unparseable text, otherwise a
\* datetime with (aware) or without (naive) tzinfo.
ParseDate(s) ==
    IF s.kind \in {"empty", "bad"} THEN [ok |-> FALSE, t |-> 0, off |-> 0, tz |-> FALSE]
    ELSE [ok |-> TRUE, t |-> s.t, off |-> s.off, tz |-> (s.kind = "aware")]

\* if dt.tzinfo is None: dt = dt.replace(tzinfo=utc); dt.isoformat()
ToStoredDeadline(dt) ==
    [null |-> FALSE, t |-> dt.t, off |-> IF dt.tz THEN dt.off ELSE 0]

\* The instant an aware datetime denotes: wall-clock reading minus offset.
Instant(dl) == dl.t - dl.off

(* ------------------------------ tasks ---------------------------------- *)
\* Task ids as typed on the command line: not a number, or a number.
IdInputs == {<<"x">>} \cup {<<DigitChar(k)>> : k \in 0..MaxTasks}

\* Lines typed at the description prompt of create_task and of edit_task.
CreateDescInputs == {<<>>, <<" ">>, <<" ", "a">>}
EditDescInputs == {<<>>, <<"a">>}

\* init_db on a fresh database file, then repl() at its first prompt.
Init ==
    /\ clock = 0
    /\ out = <<>>
    /\ running = TRUE
    /\ tasks = <<>>
    /\ nextTaskId = 1
    /\ notes = <<>>
    /\ nextNoteId = 1

\* datetime.utcnow() advances between commands.
Tick ==
    /\ clock < MaxClock
    /\ clock' = clock + 1
    /\ UNCHANGED <<out, running, tasks, nextTaskId, notes, nextNoteId>>

\* UPDATE tasks SET status = 'missed', updated_at = now WHERE id = ?
MarkMissed(r, now) == [r EXCEPT !.status = "missed", !.updated_at = now]

\* Mutants of the SELECT: 'missed' left out of the status filter; the
\* deadline IS NOT NULL condition left out.
NormalizeSelected_MissedToo(r) == ~r.deadline.null /\ r.status # "done"

NormalizeSelected_NullToo(r) == r.status \notin {"done", "missed"}

\* SELECT ... WHERE deadline IS NOT NULL AND status NOT IN ('done','missed')
NormalizeSelected(r) == ~r.deadline.null /\ r.status \notin {"done", "missed"}

\* Mutant of the comparison: a deadline equal to now counts as overdue.
Overdue_NonStrict(r, now) == Instant(r.deadline) <= now

\* dl_dt < now_tz, dl_dt being the stored text parsed back to an instant.
Overdue(r, now) == Instant(r.deadline) < now

\* Mutant of the loop: only the first selected row is processed.
normalize_first_row_only(T, now) ==
    LET sel == {i \in DOMAIN T : NormalizeSelected(T[i])} IN
    [i \in DOMAIN T |->
        IF i \in sel /\ (\A j \in sel : i <= j) /\ Overdue(T[i], now)
        THEN MarkMissed(T[i], now)
        ELSE T[i]]

\* normalize_status_on_read with utcnow() = now, as a function of the table.
normalize_status_on_read(T, now) ==
    [i \in DOMAIN T |->
        IF NormalizeSelected(T[i]) /\ Overdue(T[i], now)
        THEN MarkMissed(T[i], now)
        ELSE T[i]]

\* INSERT INTO tasks: the new row gets the next AUTOINCREMENT id.
InsertRow(T, id, row) == [i \in DOMAIN T \cup {id} |-> IF i = id THEN row ELSE T[i]]

\* DELETE FROM tasks WHERE id = ?
DeleteRow(T, id) == [i \in DOMAIN T \ {id} |-> T[i]]

\* create_task: an empty (stripped) description cancels; a deadline prompt
\* loops until the text parses, so the command ends with a parseable s.
create_task_with(descIn, yn, s) ==
    LET desc == Strip(descIn) IN
    /\ running
    /\ UNCHANGED notTaskVars
    /\ UNCHANGED clock
    /\ IF desc = <<>>
       THEN /\ out' = <<"Empty description, cancelled.">>
            /\ UNCHANGED <<tasks, nextTaskId>>
       ELSE /\ nextTaskId <= MaxTasks
            /\ yn => ParseDate(s).ok
            /\ LET deadline == IF yn THEN ToStoredDeadline(ParseDate(s))
                               ELSE NullDeadline
                   row == [description |-> desc, deadline |-> deadline,
                           status |-> "todo", updated_at |-> clock]
               IN tasks' = InsertRow(tasks, nextTaskId, row)
            /\ nextTaskId' = nextTaskId + 1
            /\ out' = <<"Task created.">>

\* The prompts create_task reaches: none after an empty description, the
\* deadline prompt only after the answer y.
create_task ==
    \E descIn \in CreateDescInputs :
        \E yn \in (IF Strip(descIn) = <<>> THEN {FALSE} ELSE BOOLEAN) :
            \E s \in (IF yn THEN DateInputs ELSE {NoDateInput}) :
                create_task_with(descIn, yn, s)

list_tasks_with(show_all) ==
    LET T == normalize_status_on_read(tasks, clock)
        rows == IF show_all THEN DOMAIN T
                ELSE {i \in DOMAIN T : T[i].status # "done"}
    IN /\ running
       /\ UNCHANGED notTaskVars
       /\ tasks' = T
       /\ out' = IF rows = {} THEN <<"No tasks.">> ELSE <<"[rows]">>
       /\ UNCHANGED <<clock, nextTaskId>>

list_tasks == \E show_all \in BOOLEAN : list_tasks_with(show_all)

view_task_with(task_id) ==
    LET p == ParseInt(task_id) IN
    /\ running
    /\ UNCHANGED notTaskVars
    /\ UNCHANGED <<clock, nextTaskId>>
    /\ IF ~p.ok
       THEN /\ out' = <<"Invalid id.">>
            /\ UNCHANGED tasks
       ELSE /\ tasks' = normalize_status_on_read(tasks, clock)
            /\ out' = IF p.n \in DOMAIN tasks THEN <<"--- Task ---">> ELSE <<"Not found.">>

view_task == \E task_id \in IdInputs : view_task_with(task_id)

\* UPDATE tasks SET status = 'done', updated_at = now WHERE id = tid
MarkDone(r, now) == [r EXCEPT !.status = "done", !.updated_at = now]

complete_task_with(task_id) ==
    LET p == ParseInt(task_id) IN
    /\ running
    /\ UNCHANGED notTaskVars
    /\ UNCHANGED <<clock, nextTaskId>>
    /\ IF ~p.ok
       THEN /\ out' = <<"Invalid id.">>
            /\ UNCHANGED tasks
       ELSE IF p.n \notin DOMAIN tasks
       THEN /\ out' = <<"Not found.">>
            /\ UNCHANGED tasks
       ELSE /\ tasks' = [tasks EXCEPT ![p.n] = MarkDone(@, clock)]
            /\ out' = <<"Marked done.">>

complete_task == \E task_id \in IdInputs : complete_task_with(task_id)

delete_task_with(task_id) ==
    LET p == ParseInt(task_id) IN
    /\ running
    /\ UNCHANGED notTaskVars
    /\ UNCHANGED <<clock, nextTaskId>>
    /\ IF ~p.ok
       THEN /\ out' = <<"Invalid id.">>
            /\ UNCHANGED tasks
       ELSE IF p.n \notin DOMAIN tasks
       THEN /\ out' = <<"Not found.">>
            /\ UNCHANGED tasks
       ELSE /\ tasks' = DeleteRow(tasks, p.n)
            /\ out' = <<"Deleted.">>

delete_task == \E task_id \in IdInputs : delete_task_with(task_id)

\* The id parses and SELECT * FROM tasks WHERE id = ? returns a row.
TaskFound(task_id) == ParseInt(task_id).ok /\ ParseInt(task_id).n \in DOMAIN tasks

\* The description step of edit_task: the raw input line is stored.
EditDescription(r, new, now) == [r EXCEPT !.description = new, !.updated_at = now]

\* Mutant of the except branch: a date that fails to parse clears the
\* deadline.
NewDeadline_BadClears(r, s) ==
    IF ParseDate(s).ok THEN ToStoredDeadline(ParseDate(s)) ELSE NullDeadline

\* The deadline the deadline step of edit_task stores for input s, given
\* the row r read at the start of the command.
NewDeadline(r, s) ==
    IF s.kind = "empty" THEN NullDeadline
    ELSE IF ParseDate(s).ok THEN ToStoredDeadline(ParseDate(s))
    ELSE r.deadline

\* Mutant of the deadline UPDATE: a new deadline puts the task back to todo.
EditDeadline_Reopen(r, new_dl, now) ==
    [r EXCEPT !.deadline = new_dl, !.updated_at = now,
              !.status = IF r.status = "missed" THEN "todo" ELSE r.status]

\* UPDATE tasks SET deadline = new_dl, updated_at = now WHERE id = tid
EditDeadline(r, new_dl, now) == [r EXCEPT !.deadline = new_dl, !.updated_at = now]

\* The row edit_task leaves of the row r it read: the description step,
\* then the deadline step, each only after the answer y.
EditedRow(r, editDesc, new, editDl, s, now) ==
    LET r1 == IF editDesc THEN EditDescription(r, new, now) ELSE r
    IN IF editDl THEN EditDeadline(r1, NewDeadline(r, s), now) ELSE r1

\* What edit_task prints after the current description.
EditMessages(editDesc, editDl, s) ==
    (IF editDesc THEN <<"Description updated.">> ELSE <<>>)
    \o (IF editDl /\ s.kind # "empty" /\ ~ParseDate(s).ok
        THEN <<"Bad date. Skipping deadline edit.">> ELSE <<>>)
    \o (IF editDl THEN <<"Deadline updated.">> ELSE <<>>)

\* edit_task: the row r is read once, then the two prompts are answered in
\* turn and each accepted step writes its column and updated_at.  The
\* command is taken at one reading of the clock.
edit_task_with(task_id, editDesc, new, editDl, s) ==
    LET p == ParseInt(task_id) IN
    /\ running
    /\ UNCHANGED notTaskVars
    /\ UNCHANGED nextTaskId
    /\ IF ~p.ok
       THEN /\ out' = <<"Invalid id.">>
            /\ UNCHANGED <<tasks, clock>>
       ELSE IF p.n \notin DOMAIN tasks
       THEN /\ out' = <<"Not found.">>
            /\ UNCHANGED <<tasks, clock>>
       ELSE /\ UNCHANGED clock
            /\ tasks' = [tasks EXCEPT ![p.n] = EditedRow(@, editDesc, new, editDl, s, clock)]
               /\ out' = <<"Current description:">> \o EditMessages(editDesc, editDl, s)

\* The prompts edit_task reaches: none for an id that does not parse or is
\* not found, the text prompts only after the answer y.
edit_task ==
    \E task_id \in IdInputs :
        \E editDesc \in (IF TaskFound(task_id) THEN BOOLEAN ELSE {FALSE}),
           editDl \in (IF TaskFound(task_id) THEN BOOLEAN ELSE {FALSE}) :
            \E new \in (IF editDesc THEN EditDescInputs ELSE {<<>>}),
               s \in (IF editDl THEN DateInputs ELSE {NoDateInput}) :
                edit_task_with(task_id, editDesc, new, editDl, s)

Next ==
    \/ Tick
    \/ create_task
    \/ list_tasks
    \/ view_task
    \/ complete_task
    \/ delete_task
    \/ edit_task

Spec == Init /\ [][Next]_vars

(* ---------------- normalization as a function of the table ------------- *)
NormTasks == 2

\* The rows a tasks table can hold at clock reading now.
TaskRows(now) ==
    [description : {<<"a">>},
     deadline    : {NullDeadline} \cup {ToStoredDeadline(ParseDate(s)) :
                                        s \in {d \in DateInputs : ParseDate(d).ok}},
     status      : {"todo", "done", "missed"},
     updated_at  : 0..now]

\* Any table of at most NormTasks rows, at any clock reading.
NormInit ==
    /\ clock \in 0..MaxClock
    /\ \E n \in 0..NormTasks : tasks \in [1..n -> TaskRows(clock)]
    /\ nextTaskId = NormTasks + 1
    /\ out = <<>>
    /\ running = TRUE
    /\ notes = <<>>
    /\ nextNoteId = 1

\* normalize_status_on_read run once more at the same clock reading.
NormRun ==
    /\ Len(out) < 2
    /\ tasks' = normalize_status_on_read(tasks, clock)
    /\ out' = Append(out, "normalized")
    /\ UNCHANGED <<clock, nextTaskId, running, notes, nextNoteId>>

NormNext == NormRun

NormSpec == NormInit /\ [][NormNext]_vars

(* ------------------------------ notes ---------------------------------- *)
MaxContent == 3
NoteMaxClock == 1

\* The model follows one row of the notes table: every command addresses
\* one row by id and no command reads or writes another row.
NoteIds == {1}

\* Characters str.splitlines() treats as line boundaries.
LineBreaks == {"\n", "\f"}

\* The least position of s holding a character of the set cs, 0 if none.
FirstIn(s, cs) ==
    IF \E k \in 1..Len(s) : s[k] \in cs
    THEN CHOOSE k \in 1..Len(s) : s[k] \in cs /\ \A j \in 1..(k - 1) : s[j] \notin cs
    ELSE 0

\* str.splitlines(): the text between line boundaries; a boundary at the
\* very end opens no further line, and the empty text has no line.
RECURSIVE SplitLines(_)
SplitLines(s) ==
    IF s = <<>> THEN <<>>
    ELSE LET k == FirstIn(s, LineBreaks) IN
         IF k = 0 THEN <<s>>
         ELSE <<SubSeq(s, 1, k - 1)>> \o SplitLines(SubSeq(s, k + 1, Len(s)))

\* "\n".join(lines)
RECURSIVE Join(_)
Join(lines) ==
    IF lines = <<>> THEN <<>>
    ELSE IF Len(lines) = 1 THEN lines[1]
    ELSE lines[1] \o <<"\n">> \o Join(Tail(lines))

\* Where Python puts a slice bound k of a list of length n.
PyBound(k, n) ==
    IF k < 0 THEN (IF n + k < 0 THEN 0 ELSE n + k)
    ELSE IF k > n THEN n ELSE k

\* lines[:k] and lines[k:]
PyPrefix(L, k) == SubSeq(L, 1, PyBound(k, Len(L)))
PySuffix(L, k) == SubSeq(L, PyBound(k, Len(L)) + 1, Len(L))

\* All sequences of at most n elements of S.
SeqsUpTo(S, n) == UNION {[1..k -> S] : k \in 0..n}

\* Lines typed when a note is created, lines typed in an edit, and the
\* blocks of lines typed before END.
CreateLines == {<<>>, <<"a">>}
EditLines == {<<>>, <<"b">>}
CreateBlocks == SeqsUpTo(CreateLines, (MaxContent + 1) \div 2)
EditBlocks == SeqsUpTo(EditLines, 1) \cup {<<<<>>, <<"b">>>>}

\* Note ids as typed on the command line.
NoteIdInputs == {<<"x">>, <<"0">>} \cup {<<DigitChar(k)>> : k \in NoteIds}

\* The argument typed after replace: nothing, an index, a range.
ReplaceArgs ==
    {<<>>, <<"x">>, <<"-", "1">>, <<"1", "-", "x">>}
    \cup {<<DigitChar(k)>> : k \in 0..3}
    \cup {<<DigitChar(a), "-", DigitChar(b)>> : a \in 0..2, b \in 0..3}

NoteInit ==
    /\ clock = 0
    /\ out = <<>>
    /\ running = TRUE
    /\ tasks = <<>>
    /\ nextTaskId = 1
    /\ notes = <<>>
    /\ nextNoteId = 1

NoteTick ==
    /\ running
    /\ clock < NoteMaxClock
    /\ clock' = clock + 1
    /\ UNCHANGED <<out, running, tasks, nextTaskId, notes, nextNoteId>>

\* UPDATE notes SET content = ?, updated_at = ? WHERE id = ?
UpdateNote(nid, new_content) ==
    /\ Len(new_content) <= MaxContent
    /\ notes' = [notes EXCEPT ![nid] = [content |-> new_content, updated_at |-> clock]]

\* The id parses and SELECT * FROM notes WHERE id = ? returns a row.
NoteFound(note_id) == ParseInt(note_id).ok /\ ParseInt(note_id).n \in DOMAIN notes

\* The ids typed for which edit_note gets past its lookup.
FoundNoteIds == {note_id \in NoteIdInputs : NoteFound(note_id)}

create_note_with(lines) ==
    /\ running
    /\ nextNoteId \in NoteIds
    /\ Len(Strip(Join(lines))) <= MaxContent
    /\ notes' = [i \in DOMAIN notes \cup {nextNoteId} |->
                   IF i = nextNoteId
                   THEN [content |-> Strip(Join(lines)), updated_at |-> clock]
                   ELSE notes[i]]
    /\ nextNoteId' = nextNoteId + 1
    /\ out' = <<"Note saved.">>
    /\ UNCHANGED <<clock, running, tasks, nextTaskId>>

create_note == \E lines \in CreateBlocks : create_note_with(lines)

delete_note_with(note_id) ==
    /\ running
    /\ UNCHANGED <<clock, nextNoteId>>
    /\ UNCHANGED notNoteVars
    /\ IF ~ParseInt(note_id).ok
       THEN /\ out' = <<"Invalid id.">>
            /\ UNCHANGED notes
       ELSE IF ~NoteFound(note_id)
       THEN /\ out' = <<"Not found.">>
            /\ UNCHANGED notes
       ELSE /\ notes' = [i \in DOMAIN notes \ {ParseInt(note_id).n} |-> notes[i]]
            /\ out' = <<"Deleted.">>

delete_note == \E note_id \in NoteIdInputs : delete_note_with(note_id)

\* edit_note for an id that does not parse or has no row.
edit_note_missing_with(note_id) ==
    /\ running
    /\ ~NoteFound(note_id)
    /\ out' = IF ParseInt(note_id).ok THEN <<"Note not found.">> ELSE <<"Invalid id.">>
    /\ UNCHANGED <<clock, notes, nextNoteId>>
    /\ UNCHANGED notNoteVars

edit_note_missing == \E note_id \in NoteIdInputs : edit_note_missing_with(note_id)

\* edit_note, choice whole: the typed lines replace the content.
edit_note_whole_with(note_id, new_lines) ==
    /\ running
    /\ NoteFound(note_id)
    /\ UpdateNote(ParseInt(note_id).n, Strip(Join(new_lines)))
    /\ out' = <<"Note replaced.">>
    /\ UNCHANGED <<clock, nextNoteId>>
    /\ UNCHANGED notNoteVars

edit_note_whole ==
    \E note_id \in FoundNoteIds, new_lines \in EditBlocks :
        edit_note_whole_with(note_id, new_lines)

\* rng.split("-", 1)
RangeParts(rng) ==
    LET k == FirstIn(rng, {"-"}) IN
    [a |-> SubSeq(rng, 1, k - 1), b |-> SubSeq(rng, k + 1, Len(rng))]

\* replace N-M: lines[:a_i] + new_chunk.splitlines() + lines[b_i+1:]
ReplaceRangeLines(lines, a_i, b_i, new) ==
    PyPrefix(lines, a_i) \o SplitLines(Join(new)) \o PySuffix(lines, b_i + 1)

\* replace N: lines[idx] = new_text when 0 <= idx < len(lines), else
\* lines.append(new_text)
ReplaceLineLines(lines, idx, new_text) ==
    IF 0 <= idx /\ idx < Len(lines)
    THEN [lines EXCEPT ![idx + 1] = new_text]
    ELSE Append(lines, new_text)

\* edit_note, choice part, command replace with argument rng: new_text is
\* the line typed at "New text:", new the lines typed before END.
edit_note_replace_with(note_id, rng, new_text, new) ==
    LET nid   == ParseInt(note_id).n
        lines == SplitLines(notes[nid].content)
    IN
    /\ running
    /\ NoteFound(note_id)
    /\ UNCHANGED <<clock, nextNoteId, tasks, nextTaskId>>
    /\ IF rng = <<>>
       THEN \* _, rng = cmd.split(None, 1) raises ValueError, caught nowhere
            /\ running' = FALSE
            /\ out' = <<"ValueError">>
            /\ UNCHANGED notes
       ELSE /\ UNCHANGED running
            /\ IF FirstIn(rng, {"-"}) # 0
               THEN LET a == ParseInt(RangeParts(rng).a)
                        b == ParseInt(RangeParts(rng).b)
                    IN IF ~a.ok \/ ~b.ok
                       THEN /\ out' = <<"Bad range.">>
                            /\ UNCHANGED notes
                       ELSE /\ UpdateNote(nid, Join(ReplaceRangeLines(lines, a.n - 1, b.n - 1, new)))
                            /\ out' = <<"Updated.">>
               ELSE LET p == ParseInt(rng) IN
                    IF ~p.ok
                    THEN /\ out' = <<"Bad index.">>
                         /\ UNCHANGED notes
                    ELSE /\ UpdateNote(nid, Join(ReplaceLineLines(lines, p.n - 1, new_text)))
                         /\ out' = <<"Updated.">>

\* The prompts replace reaches: "New text:" for an index, the block for a
\* range, none when the argument is missing or does not parse.
IsRangeArg(rng) ==
    /\ FirstIn(rng, {"-"}) # 0
    /\ ParseInt(RangeParts(rng).a).ok
    /\ ParseInt(RangeParts(rng).b).ok

IsIndexArg(rng) == FirstIn(rng, {"-"}) = 0 /\ ParseInt(rng).ok

edit_note_replace ==
    \E note_id \in FoundNoteIds, rng \in ReplaceArgs :
        \E new_text \in (IF IsIndexArg(rng) THEN EditLines ELSE {<<>>}),
           new \in (IF IsRangeArg(rng) THEN EditBlocks ELSE {<<>>}) :
            edit_note_replace_with(note_id, rng, new_text, new)

\* The argument typed after delete and after insert: nothing, not a number,
\* a number.
LineArgs == {<<>>, <<"x">>, <<"-", "1">>} \cup {<<DigitChar(k)>> : k \in 0..3}

\* lines.pop(idx) for 0 <= idx < len(lines)
PopLine(lines, idx) ==
    SubSeq(lines, 1, idx) \o SubSeq(lines, idx + 2, Len(lines))

\* edit_note, choice part, command delete with argument n.  A missing
\* argument and a failing int(n) both raise inside the try block.
edit_note_delete_with(note_id, n) ==
    LET nid   == ParseInt(note_id).n
        lines == SplitLines(notes[nid].content)
        idx   == ParseInt(n).n - 1
    IN
    /\ running
    /\ NoteFound(note_id)
    /\ UNCHANGED <<clock, nextNoteId>>
    /\ UNCHANGED notNoteVars
    /\ IF ~ParseInt(n).ok
       THEN /\ out' = <<"Error:">>
            /\ UNCHANGED notes
       ELSE IF 0 <= idx /\ idx < Len(lines)
       THEN /\ UpdateNote(nid, Join(PopLine(lines, idx)))
            /\ out' = <<"Line deleted.">>
       ELSE /\ out' = <<"Index out of range.">>
            /\ UNCHANGED notes

edit_note_delete ==
    \E note_id \in FoundNoteIds, n \in LineArgs : edit_note_delete_with(note_id, n)

\* content + ("\n" if content and new else "") + "\n".join(new)
AppendContent(content, new) ==
    content \o (IF content # <<>> /\ new # <<>> THEN <<"\n">> ELSE <<>>) \o Join(new)

\* edit_note, choice part, command append: new holds the lines typed
\* before END.
edit_note_append_with(note_id, new) ==
    LET nid == ParseInt(note_id).n IN
    /\ running
    /\ NoteFound(note_id)
    /\ UpdateNote(nid, AppendContent(notes[nid].content, new))
    /\ out' = <<"Appended.">>
    /\ UNCHANGED <<clock, nextNoteId>>
    /\ UNCHANGED notNoteVars

edit_note_append ==
    \E note_id \in FoundNoteIds, new \in EditBlocks : edit_note_append_with(note_id, new)

\* if idx < 0: idx = 0; if idx > len(lines): idx = len(lines)
ClampIndex(idx, n) == IF idx < 0 THEN 0 ELSE IF idx > n THEN n ELSE idx

\* lines[:idx] + new + lines[idx:] after the clamping
InsertLines(lines, idx, new) ==
    LET k == ClampIndex(idx, Len(lines)) IN
    SubSeq(lines, 1, k) \o new \o SubSeq(lines, k + 1, Len(lines))

\* edit_note, choice part, command insert with argument n: new holds the
\* lines typed before END, a prompt that is reached only when int(n) works.
edit_note_insert_with(note_id, n, new) ==
    LET nid   == ParseInt(note_id).n
        lines == SplitLines(notes[nid].content)
    IN
    /\ running
    /\ NoteFound(note_id)
    /\ UNCHANGED <<clock, nextNoteId>>
    /\ UNCHANGED notNoteVars
    /\ IF ~ParseInt(n).ok
       THEN /\ out' = <<"Error:">>
            /\ UNCHANGED notes
       ELSE /\ UpdateNote(nid, Join(InsertLines(lines, ParseInt(n).n - 1, new)))
            /\ out' = <<"Inserted.">>

edit_note_insert ==
    \E note_id \in FoundNoteIds, n \in LineArgs :
        \E new \in (IF ParseInt(n).ok THEN EditBlocks ELSE {<<>>}) :
            edit_note_insert_with(note_id, n, new)

\* edit_note, choice part, a command that is none of the five.
edit_note_cancel_with(note_id) ==
    /\ running
    /\ NoteFound(note_id)
    /\ out' = <<"Unknown command. Cancelled.">>
    /\ UNCHANGED <<clock, notes, nextNoteId>>
    /\ UNCHANGED notNoteVars

edit_note_cancel == \E note_id \in FoundNoteIds : edit_note_cancel_with(note_id)

\* The fixed sentence llm_query returns when it cannot ask the service,
\* shortened to one character.
Sentinel == <<"!">>

\* What resp.choices[0].message.content can hold before strip().
ReplyTexts == {<<" ">>, <<"z">>, <<"z", "\n", "y">>}

\* The surroundings of one llm_query call: whether the openai module and
\* OPENAI_KEY are there, whether openai.OpenAI(...) returns a client, and
\* whether the completion call returns (with which text) or raises.
GatewayEnvs ==
    {[key |-> FALSE, client |-> FALSE, ok |-> FALSE, text |-> <<>>],
     [key |-> TRUE, client |-> FALSE, ok |-> FALSE, text |-> <<>>],
     [key |-> TRUE, client |-> TRUE, ok |-> FALSE, text |-> <<>>]}
    \cup {[key |-> TRUE, client |-> TRUE, ok |-> TRUE, text |-> t] : t \in ReplyTexts}

\* llm_query: the text returned, or raised when the exception of the
\* client constructor, which is outside the try block, leaves the function.
llm_query(env) ==
    IF ~env.key THEN [raised |-> FALSE, text |-> Sentinel]
    ELSE IF ~env.client THEN [raised |-> TRUE, text |-> <<>>]
    ELSE IF env.ok THEN [raised |-> FALSE, text |-> Strip(env.text)]
    ELSE [raised |-> FALSE, text |-> Sentinel]

\* The scope typed at the llm-refactor prompt: whole, lines with parts[1]
\* (empty when there is no second word), anything else.
ScopeArgs ==
    {<<>>, <<"x">>, <<"1", "-", "x">>}
    \cup {<<DigitChar(k)>> : k \in 0..2}
    \cup {<<DigitChar(a), "-", DigitChar(b)>> : a \in 0..2, b \in 0..2}

RefactorScopes ==
    {[kind |-> "whole", arg |-> <<>>], [kind |-> "other", arg |-> <<>>]}
    \cup {[kind |-> "lines", arg |-> r] : r \in ScopeArgs}

\* lines[idx] of a Python list of length n exists for -n <= idx < n; the
\* position it names counts from the end when idx is negative.
PyIndexOK(idx, n) == -n <= idx /\ idx < n
PyPosition(idx, n) == IF idx >= 0 THEN idx + 1 ELSE n + idx + 1

\* scope lines N-M: lines[:a_i] + out.splitlines() + lines[b_i+1:]
RefactorRangeLines(lines, a_i, b_i, text) ==
    PyPrefix(lines, a_i) \o SplitLines(text) \o PySuffix(lines, b_i + 1)

\* scope lines N: lines[idx] = out.splitlines()[0]
RefactorLineLines(lines, idx, text) ==
    [lines EXCEPT ![PyPosition(idx, Len(lines))] = SplitLines(text)[1]]

\* The process ends with a traceback: nothing in edit_note or repl catches
\* the exception.
Uncaught(name) ==
    /\ running' = FALSE
    /\ out' = <<name>>
    /\ UNCHANGED notes

\* edit_note, choice part, command llm-refactor with the scope typed and
\* the surroundings env of the llm_query call, if one is made.
edit_note_refactor_with(note_id, scope, env) ==
    LET nid     == ParseInt(note_id).n
        content == notes[nid].content
        lines   == SplitLines(content)
        res     == llm_query(env)
    IN
    /\ running
    /\ NoteFound(note_id)
    /\ UNCHANGED <<clock, nextNoteId, tasks, nextTaskId>>
    /\ IF scope.kind = "whole"
       THEN IF res.raised THEN Uncaught("Exception")
            ELSE /\ UNCHANGED running
                 /\ IF res.text # <<>>
                    THEN /\ UpdateNote(nid, res.text)
                         /\ out' = <<"Note replaced with LLM result.">>
                    ELSE /\ out' = <<>>
                         /\ UNCHANGED notes
       ELSE IF scope.kind = "other"
       THEN /\ out' = <<"Unknown scope.">>
            /\ UNCHANGED <<running, notes>>
       ELSE IF FirstIn(scope.arg, {"-"}) # 0
       THEN LET a == ParseInt(RangeParts(scope.arg).a)
                b == ParseInt(RangeParts(scope.arg).b)
            IN IF ~a.ok \/ ~b.ok THEN Uncaught("ValueError")
               ELSE IF res.raised THEN Uncaught("Exception")
               ELSE /\ UNCHANGED running
                    /\ IF res.text # <<>>
                       THEN /\ UpdateNote(nid, Join(RefactorRangeLines(lines, a.n - 1, b.n - 1, res.text)))
                            /\ out' = <<"Selection replaced with LLM result.">>
                       ELSE /\ out' = <<>>
                            /\ UNCHANGED notes
       ELSE LET p == ParseInt(scope.arg) IN
            /\ UNCHANGED running
            /\ IF ~p.ok \/ ~PyIndexOK(p.n - 1, Len(lines)) \/ res.raised
               THEN /\ out' = <<"Bad input.">>
                    /\ UNCHANGED notes
               ELSE IF res.text # <<>>
               THEN /\ UpdateNote(nid, Join(RefactorLineLines(lines, p.n - 1, res.text)))
                    /\ out' = <<"Line replaced with LLM result.">>
               ELSE /\ out' = <<>>
                    /\ UNCHANGED notes

\* The scopes for which edit_note reaches its llm_query call.
CallsGateway(note_id, scope) ==
    \/ scope.kind = "whole"
    \/ /\ scope.kind = "lines"
       /\ IF FirstIn(scope.arg, {"-"}) # 0
          THEN IsRangeArg(scope.arg)
          ELSE /\ ParseInt(scope.arg).ok
               /\ NoteFound(note_id)
               /\ PyIndexOK(ParseInt(scope.arg).n - 1,
                            Len(SplitLines(notes[ParseInt(note_id).n].content)))

\* Stands for a call of llm_query that is not made.
NoGateway == [key |-> FALSE, client |-> FALSE, ok |-> FALSE, text |-> <<>>]

edit_note_refactor ==
    \E note_id \in FoundNoteIds, scope \in RefactorScopes :
        \E env \in (IF CallsGateway(note_id, scope) THEN GatewayEnvs ELSE {NoGateway}) :
            edit_note_refactor_with(note_id, scope, env)

\* notes list: one line per note, or "No notes.".
list_notes ==
    /\ running
    /\ out' = IF DOMAIN notes = {} THEN <<"No notes.">> ELSE <<"[notes]">>
    /\ UNCHANGED <<clock, notes, nextNoteId>>
    /\ UNCHANGED notNoteVars

\* notes view: the note between its two rule lines.
view_note_with(note_id) ==
    /\ running
    /\ out' = IF ~ParseInt(note_id).ok THEN <<"Invalid id.">>
              ELSE IF ~NoteFound(note_id) THEN <<"Note not found.">>
              ELSE <<"--- Note ---">>
    /\ UNCHANGED <<clock, notes, nextNoteId>>
    /\ UNCHANGED notNoteVars

view_note == \E note_id \in NoteIdInputs : view_note_with(note_id)

\* What repl answers without calling a handler: help, a notes or tasks
\* command without or with an unknown subcommand, ask without a question,
\* any other first word.
ReplMessages ==
    {"HELP_TEXT", "notes: create/list/view/edit/delete", "Unknown notes subcommand.",
     "tasks: create/list/view/edit/done/delete", "Unknown tasks subcommand.",
     "ask: no question", "Unknown command."}

repl_message_with(m) ==
    /\ running
    /\ out' = <<m>>
    /\ UNCHANGED <<clock, running, tasks, nextTaskId, notes, nextNoteId>>

repl_message == \E m \in ReplMessages : repl_message_with(m)

\* ask <question>: the answer of llm_query is printed between two rules;
\* an exception leaving llm_query leaves repl as well.
repl_ask_with(env) ==
    /\ running
    /\ IF llm_query(env).raised
       THEN Uncaught("Exception")
       ELSE /\ out' = <<"--- LLM ---">>
            /\ UNCHANGED <<running, notes>>
    /\ UNCHANGED <<clock, tasks, nextTaskId, nextNoteId>>

repl_ask == \E env \in GatewayEnvs : repl_ask_with(env)

\* exit or quit at the prompt ("Bye."), and KeyboardInterrupt or EOFError
\* raised by the prompt's input() ("Exiting."): the loop breaks.
ReplFarewells == {"Bye.", "Exiting."}

repl_break_with(m) ==
    /\ running
    /\ running' = FALSE
    /\ out' = <<m>>
    /\ UNCHANGED <<clock, tasks, nextTaskId, notes, nextNoteId>>

repl_break == \E m \in ReplFarewells : repl_break_with(m)

NoteNext ==
    \/ NoteTick
    \/ create_note
    \/ delete_note
    \/ edit_note_missing
    \/ edit_note_whole
    \/ edit_note_replace
    \/ edit_note_delete
    \/ edit_note_append
    \/ edit_note_insert
    \/ edit_note_cancel
    \/ edit_note_refactor
    \/ list_notes
    \/ view_note
    \/ repl_message
    \/ repl_ask
    \/ repl_break

NoteSpec == NoteInit /\ [][NoteNext]_vars

(* ------------------------- task lifecycle claims ----------------------- *)
\* What a command that runs normalize_status_on_read can print.
NormalizingOutputs == {<<"[rows]">>, <<"No tasks.">>, <<"--- Task ---">>, <<"Not found.">>}

\* A step of a command that runs normalize_status_on_read.
NormalizingStep ==
    /\ clock' = clock
    /\ out' \in NormalizingOutputs
    /\ \/ list_tasks
       \/ \E task_id \in IdInputs : ParseInt(task_id).ok /\ view_task_with(task_id)

HasMessage(o, m) == \E k \in 1..Len(o) : o[k] = m

\* A step of tasks edit on the existing task i: the description prompt
\* answered with new (editDesc) and the deadline prompt with s (editDl).
EditStepOn(i, editDesc, new, editDl, s) ==
    /\ i \in DOMAIN tasks
    /\ clock' = clock
    /\ out' = <<"Current description:">> \o EditMessages(editDesc, editDl, s)
    /\ tasks' = [tasks EXCEPT ![i] = EditedRow(@, editDesc, new, editDl, s, clock)]

\* The answers to edit_task's two y/n prompts that print the transcript o.
EditAnswers(o) ==
    [editDesc |-> HasMessage(o, "Description updated."),
     editDl   |-> HasMessage(o, "Deadline updated.")]

\* Some step of tasks edit on the existing task i.
SomeEditStepOn(i) ==
    /\ out' # <<>> /\ out'[1] = "Current description:"
    /\ LET ans == EditAnswers(out') IN
       \E new \in (IF ans.editDesc THEN EditDescInputs ELSE {<<>>}),
          s \in (IF ans.editDl THEN DateInputs ELSE {NoDateInput}) :
            EditStepOn(i, ans.editDesc, new, ans.editDl, s)

\* A step of tasks done on the existing task i.
CompleteStepOn(i) ==
    /\ out' = <<"Marked done.">>
    /\ i \in DOMAIN tasks
    /\ complete_task_with(<<DigitChar(i)>>)

\* A step of tasks delete on the existing task i.
DeleteStepOn(i) ==
    /\ out' = <<"Deleted.">>
    /\ i \in DOMAIN tasks
    /\ delete_task_with(<<DigitChar(i)>>)

HasOverdueTodo(T, now) ==
    \E i \in DOMAIN T :
        T[i].status = "todo" /\ ~T[i].deadline.null /\ Instant(T[i].deadline) < now

\* C1: a normalization run at instant now turns every todo task whose
\* deadline is strictly before now into missed with updated timestamp now,
\* and leaves todo every todo task whose deadline is now or later.
C1_NormalizeMarksOverdue ==
    [][NormalizingStep =>
        \A i \in DOMAIN tasks :
            (tasks[i].status = "todo" /\ ~tasks[i].deadline.null) =>
                IF Instant(tasks[i].deadline) < clock
                THEN tasks'[i].status = "missed" /\ tasks'[i].updated_at = clock
                ELSE tasks'[i].status = "todo"]_vars

\* A listing has just turned an overdue task into missed at this instant.
C1_Witness ==
    \E i \in DOMAIN tasks :
        /\ out = <<"[rows]">>
        /\ tasks[i].status = "missed"
        /\ tasks[i].updated_at = clock
        /\ ~tasks[i].deadline.null
        /\ Instant(tasks[i].deadline) < clock

\* C2: whenever list, view, edit, done or delete acts on the store, the
\* table it acts on (what list and view read, what edit, done and delete
\* find) holds no todo task with a deadline strictly before the current
\* instant.
C2_NormalizedBeforeEveryCommand ==
    [][/\ NormalizingStep => ~HasOverdueTodo(tasks', clock')
       /\ (\E i \in DOMAIN tasks :
              \/ CompleteStepOn(i)
              \/ DeleteStepOn(i)
              \/ SomeEditStepOn(i))
          => ~HasOverdueTodo(tasks, clock)]_vars

\* C3: Complete turns a todo or missed task into done; on a task that is
\* already done it reports a failure and changes neither status nor
\* updated timestamp.
C3_CompleteDoneIsNoOp ==
    [][\A i \in DOMAIN tasks :
          CompleteStepOn(i) =>
              IF tasks[i].status \in {"todo", "missed"}
              THEN tasks'[i].status = "done"
              ELSE /\ tasks'[i].status = tasks[i].status
                   /\ tasks'[i].updated_at = tasks[i].updated_at
                   /\ out' # <<"Marked done.">>]_vars

\* C4: for every task and every command run at an instant later than the
\* task's last update, the updated timestamp changes if and only if the
\* status, the description or the deadline changes.
C4_UpdatedIffChanged ==
    [][\A i \in DOMAIN tasks \cap DOMAIN tasks' :
          tasks[i].updated_at < clock' =>
              ((tasks'[i].updated_at # tasks[i].updated_at)
               <=> \/ tasks'[i].status # tasks[i].status
                   \/ tasks'[i].description # tasks[i].description
                   \/ tasks'[i].deadline # tasks[i].deadline)]_vars

\* C5: normalization leaves every done or missed task exactly as it was
\* (status, deadline, description, updated timestamp), whatever its deadline.
C5_NormalizeKeepsDoneAndMissed ==
    [][NormalizingStep =>
        \A i \in DOMAIN tasks :
            tasks[i].status \in {"done", "missed"} => tasks'[i] = tasks[i]]_vars

\* A missed task, overdue and last updated earlier, has just been listed.
C5_Witness ==
    \E i \in DOMAIN tasks :
        /\ out = <<"[rows]">>
        /\ tasks[i].status = "missed"
        /\ ~tasks[i].deadline.null
        /\ Instant(tasks[i].deadline) < clock
        /\ tasks[i].updated_at < clock

\* C6: in every status a description or deadline edit is accepted and
\* stores the new value without changing the status; no step of tasks edit
\* changes a status, and a missed task stays missed through edits (also to
\* a future or removed deadline) and through any later normalization: it
\* leaves missed only by an explicit Complete.
C6_EditKeepsStatus ==
    /\ [](\A i \in DOMAIN tasks :
            \A editDesc \in BOOLEAN, editDl \in BOOLEAN,
               new \in EditDescInputs, s \in DateInputs :
                LET r2 == EditedRow(tasks[i], editDesc, new, editDl, s, clock) IN
                /\ r2.status = tasks[i].status
                /\ editDesc => r2.description = new
                /\ editDl => r2.deadline = NewDeadline(tasks[i], s))
    /\ [][\A i \in DOMAIN tasks \cap DOMAIN tasks' :
            tasks'[i].status # tasks[i].status =>
                /\ ~SomeEditStepOn(i)
                /\ tasks[i].status = "missed" => CompleteStepOn(i)]_vars

\* A missed task whose deadline now lies in the future has been listed again.
C6_Witness ==
    \E i \in DOMAIN tasks :
        /\ out = <<"[rows]">>
        /\ tasks[i].status = "missed"
        /\ ~tasks[i].deadline.null
        /\ Instant(tasks[i].deadline) > clock

\* C7: once normalization has run at an instant, running it again at that
\* instant with no command in between leaves every status and every updated
\* timestamp as the first run left them.
C7_NormalizeIdempotent ==
    Len(out) >= 1 => normalize_status_on_read(tasks, clock) = tasks

\* Two runs in a row, the first of which turned a task into missed.
C7_Witness ==
    /\ out = <<"normalized", "normalized">>
    /\ \E i \in DOMAIN tasks :
          /\ tasks[i].status = "missed"
          /\ tasks[i].updated_at = clock
          /\ ~tasks[i].deadline.null
          /\ Instant(tasks[i].deadline) < clock
    /\ \E j \in DOMAIN tasks : tasks[j].status = "todo" /\ ~tasks[j].deadline.null

\* C8: a task without a deadline changes status only through an explicit
\* Complete; in particular normalization never moves it to missed.
C8_NoDeadlineNeverMissed ==
    [][\A i \in DOMAIN tasks \cap DOMAIN tasks' :
          (tasks[i].deadline.null /\ tasks'[i].status # tasks[i].status) =>
              (CompleteStepOn(i) /\ tasks'[i].status = "done")]_vars

\* A todo task without a deadline has been listed after time has passed.
C8_Witness ==
    \E i \in DOMAIN tasks :
        /\ out = <<"[rows]">>
        /\ tasks[i].deadline.null
        /\ tasks[i].status = "todo"
        /\ tasks[i].updated_at < clock

\* The date inputs dateparser.parse fails on, other than the empty line.
BadDateInputs == {s \in DateInputs : s.kind # "empty" /\ ~ParseDate(s).ok}

\* C18: in every reachable state every stored task has a non-empty
\* description.
C18_DescriptionNonEmpty ==
    \A i \in DOMAIN tasks : tasks[i].description # <<>>

\* C19: a tasks edit whose deadline prompt is answered with text that does
\* not parse leaves the stored deadline as it was and prints the bad-date
\* message, and a description entered in the same command is stored.
C19_BadDateKeepsDeadline ==
    [][\A i \in DOMAIN tasks, editDesc \in BOOLEAN,
          new \in EditDescInputs, s \in BadDateInputs :
          (/\ out' # <<>> /\ out'[1] = "Current description:"
           /\ EditStepOn(i, editDesc, new, TRUE, s))
          => /\ tasks'[i].deadline = tasks[i].deadline
             /\ HasMessage(out', "Bad date. Skipping deadline edit.")
             /\ editDesc => tasks'[i].description = new]_vars

\* An edit has just stored a new description and then skipped an
\* unparseable deadline on a task that has a deadline.
C19_Witness ==
    /\ out = <<"Current description:", "Description updated.",
               "Bad date. Skipping deadline edit.", "Deadline updated.">>
    /\ \E i \in DOMAIN tasks :
          /\ ~tasks[i].deadline.null
          /\ tasks[i].description = <<>>
          /\ tasks[i].updated_at = clock

(* --------------------------- note editor claims ------------------------ *)
\* A step of replace with argument rng and new text t on the existing note.
ReplaceIndexStepOn(nid, rng, t) ==
    /\ nid \in DOMAIN notes
    /\ edit_note_replace_with(<<DigitChar(nid)>>, rng, t, <<>>)

\* C9: for every line sequence L, valid index i (1 <= i <= len(L)) and
\* text t, the content after replace i with t, read back as lines, has the
\* length of L and differs from L only at position i, where it is t.
C9_ReplaceLineOnlyAtIndex ==
    [][\A nid \in DOMAIN notes, rng \in ReplaceArgs, t \in EditLines :
          LET L == SplitLines(notes[nid].content)
              i == ParseInt(rng).n
          IN (/\ out' = <<"Updated.">>
              /\ IsIndexArg(rng)
              /\ 1 <= i /\ i <= Len(L)
              /\ ReplaceIndexStepOn(nid, rng, t))
             => SplitLines(notes'[nid].content) = [L EXCEPT ![i] = t]]_vars

\* C10: replace with an index below 1 fails: nothing is written, the
\* note's content and updated timestamp stay as they were.
C10_ReplaceBelowOneFails ==
    [][\A nid \in DOMAIN notes, rng \in ReplaceArgs, t \in EditLines :
          (/\ ParseInt(rng).ok
           /\ ParseInt(rng).n < 1
           /\ ReplaceIndexStepOn(nid, rng, IF IsIndexArg(rng) THEN t ELSE <<>>))
          => notes' = notes]_vars

\* A step of replace with the range argument rng and the block new on the
\* existing note.
ReplaceRangeStepOn(nid, rng, new) ==
    /\ nid \in DOMAIN notes
    /\ edit_note_replace_with(<<DigitChar(nid)>>, rng, <<>>, new)

\* A step of delete with argument n on the existing note.
DeleteLineStepOn(nid, n) ==
    /\ nid \in DOMAIN notes
    /\ edit_note_delete_with(<<DigitChar(nid)>>, n)

\* A step of insert with argument n and the lines new on the existing note.
InsertStepOn(nid, n, new) ==
    /\ nid \in DOMAIN notes
    /\ edit_note_insert_with(<<DigitChar(nid)>>, n, new)

\* A step of append with the lines new on the existing note.
AppendStepOn(nid, new) ==
    /\ nid \in DOMAIN notes
    /\ edit_note_append_with(<<DigitChar(nid)>>, new)

\* A step of llm-refactor with scope lines arg on the existing note, the
\* llm_query call made in the surroundings env.
RefactorLinesStepOn(nid, arg, env) ==
    /\ nid \in DOMAIN notes
    /\ edit_note_refactor_with(<<DigitChar(nid)>>, [kind |-> "lines", arg |-> arg], env)

\* The lines of the note as the next edit reads them.
LinesOf(T, nid) == SplitLines(T[nid].content)

\* C11: replace a-b with bounds that do not satisfy 1 <= a <= b <= len(L)
\* writes nothing: the note's content and updated timestamp stay as they
\* were.
C11_ReplaceRangeInvalidFails ==
    [][\A nid \in DOMAIN notes, rng \in ReplaceArgs, new \in EditBlocks :
          LET a == ParseInt(RangeParts(rng).a).n
              b == ParseInt(RangeParts(rng).b).n
          IN (/\ out' = <<"Updated.">>
              /\ IsRangeArg(rng)
              /\ (a < 1 \/ a > b \/ b > Len(LinesOf(notes, nid)))
              /\ ReplaceRangeStepOn(nid, rng, new))
             => notes' = notes]_vars

\* C12: for bounds 1 <= a <= b <= len(L), the note after replace a-b with a
\* block reads as L[1..a-1], then the lines of the block, then
\* L[b+1..len(L)].
C12_ReplaceRangeSplices ==
    [][\A nid \in DOMAIN notes, rng \in ReplaceArgs, new \in EditBlocks :
          LET L == LinesOf(notes, nid)
              a == ParseInt(RangeParts(rng).a).n
              b == ParseInt(RangeParts(rng).b).n
          IN (/\ out' = <<"Updated.">>
              /\ IsRangeArg(rng)
              /\ 1 <= a /\ a <= b /\ b <= Len(L)
              /\ ReplaceRangeStepOn(nid, rng, new))
             => LinesOf(notes', nid) =
                    SubSeq(L, 1, a - 1) \o SplitLines(Join(new)) \o SubSeq(L, b + 1, Len(L))]_vars

\* C13: for an index i > len(L), the note after replace i with text t reads
\* as L followed by the one line t.
C13_ReplacePastEndAppends ==
    [][\A nid \in DOMAIN notes, rng \in ReplaceArgs, t \in EditLines :
          LET L == LinesOf(notes, nid) IN
          (/\ out' = <<"Updated.">>
           /\ IsIndexArg(rng)
           /\ ParseInt(rng).n > Len(L)
           /\ ReplaceIndexStepOn(nid, rng, t))
          => LinesOf(notes', nid) = Append(L, t)]_vars

\* C14: delete i with 1 <= i <= len(L) leaves the note reading as L without
\* its line i; with any other index it reports the index as out of range
\* and leaves content and updated timestamp as they were.
C14_DeleteLineRemovesOne ==
    [][\A nid \in DOMAIN notes, n \in LineArgs :
          LET L == LinesOf(notes, nid)
              i == ParseInt(n).n
          IN (/\ out' \in {<<"Line deleted.">>, <<"Index out of range.">>}
              /\ DeleteLineStepOn(nid, n))
             => IF 1 <= i /\ i <= Len(L)
                THEN LinesOf(notes', nid) = SubSeq(L, 1, i - 1) \o SubSeq(L, i + 1, Len(L))
                ELSE notes' = notes /\ out' = <<"Index out of range.">>]_vars

\* C15: insert i with lines N always succeeds and leaves the note reading
\* as L with N placed before its line i, i taken as 1 when below 1 and as
\* len(L)+1 when above it.
C15_InsertBeforeClamped ==
    [][\A nid \in DOMAIN notes, n \in LineArgs, new \in EditBlocks :
          LET L == LinesOf(notes, nid)
              i == ParseInt(n).n
              k == IF i < 1 THEN 1 ELSE IF i > Len(L) + 1 THEN Len(L) + 1 ELSE i
          IN (/\ out' = <<"Inserted.">>
              /\ InsertStepOn(nid, n, new))
             => LinesOf(notes', nid) = SubSeq(L, 1, k - 1) \o new \o SubSeq(L, k, Len(L))]_vars

\* C16: append with lines N leaves the note reading as L followed by N.
C16_AppendKeepsLinesApart ==
    [][\A nid \in DOMAIN notes, new \in EditBlocks :
          (/\ out' = <<"Appended.">>
           /\ AppendStepOn(nid, new))
          => LinesOf(notes', nid) = LinesOf(notes, nid) \o new]_vars

\* C17: the line sequence a replace, delete or insert computes is the line
\* sequence the next edit reads from the stored content.
C17_JoinSplitRoundTrip ==
    [][\A nid \in DOMAIN notes :
          LET L == LinesOf(notes, nid) IN
          /\ \A rng \in ReplaceArgs, t \in EditLines :
                (/\ out' = <<"Updated.">>
                 /\ IsIndexArg(rng)
                 /\ ReplaceIndexStepOn(nid, rng, t))
                => LinesOf(notes', nid) = ReplaceLineLines(L, ParseInt(rng).n - 1, t)
          /\ \A rng \in ReplaceArgs, new \in EditBlocks :
                (/\ out' = <<"Updated.">>
                 /\ IsRangeArg(rng)
                 /\ ReplaceRangeStepOn(nid, rng, new))
                => LinesOf(notes', nid) =
                       ReplaceRangeLines(L, ParseInt(RangeParts(rng).a).n - 1,
                                         ParseInt(RangeParts(rng).b).n - 1, new)
          /\ \A n \in LineArgs :
                (/\ out' = <<"Line deleted.">>
                 /\ DeleteLineStepOn(nid, n))
                => LinesOf(notes', nid) = PopLine(L, ParseInt(n).n - 1)
          /\ \A n \in LineArgs, new \in EditBlocks :
                (/\ out' = <<"Inserted.">>
                 /\ InsertStepOn(nid, n, new))
                => LinesOf(notes', nid) = InsertLines(L, ParseInt(n).n - 1, new)]_vars

\* C20: llm-refactor of lines i with 1 <= i <= len(L) and a non-empty
\* gateway response leaves the note reading as L with line i replaced by
\* the first line of the response.
C20_RefactorLineKeepsLength ==
    [][\A nid \in DOMAIN notes, arg \in ScopeArgs, env \in GatewayEnvs :
          LET L == LinesOf(notes, nid)
              i == ParseInt(arg).n
              res == llm_query(env)
          IN (/\ out' = <<"Line replaced with LLM result.">>
              /\ IsIndexArg(arg)
              /\ 1 <= i /\ i <= Len(L)
              /\ ~res.raised /\ res.text # <<>>
              /\ RefactorLinesStepOn(nid, arg, env))
             => LinesOf(notes', nid) = [L EXCEPT ![i] = SplitLines(res.text)[1]]]_vars

\* A step of llm-refactor with the scope typed on the existing note, the
\* llm_query call made in the surroundings env.
RefactorStepOn(nid, scope, env) ==
    /\ nid \in DOMAIN notes
    /\ edit_note_refactor_with(<<DigitChar(nid)>>, scope, env)

\* A step of a command that calls llm_query in the surroundings env: ask,
\* or llm-refactor with a scope that reaches the call.
GatewayCallStep(env) ==
    \/ repl_ask_with(env)
    \/ \E nid \in DOMAIN notes, scope \in RefactorScopes :
          /\ CallsGateway(<<DigitChar(nid)>>, scope)
          /\ RefactorStepOn(nid, scope, env)

\* C21: every call of llm_query returns a text to its caller, the stripped
\* text of the service or the fallback sentence, whether the credential is
\* missing, the client cannot be built, or the completion call fails or
\* returns an empty message; no exception leaves it.
C21_GatewayNeverRaises ==
    [][\A env \in GatewayEnvs :
          GatewayCallStep(env) =>
              /\ ~llm_query(env).raised
              /\ llm_query(env).text \in {Sentinel} \cup {Strip(t) : t \in ReplyTexts}]_vars

\* C22: llm-refactor with a scope outside the note, lines i with i < 1 or
\* i > len(L), or lines a-b without 1 <= a <= b <= len(L), writes nothing:
\* the note's content and updated timestamp stay as they were.
C22_RefactorOutsideKeepsNote ==
    [][\A nid \in DOMAIN notes, arg \in ScopeArgs, env \in GatewayEnvs :
          LET L == LinesOf(notes, nid)
              i == ParseInt(arg).n
              a == ParseInt(RangeParts(arg).a).n
              b == ParseInt(RangeParts(arg).b).n
          IN (/\ \/ IsIndexArg(arg) /\ (i < 1 \/ i > Len(L))
                 \/ IsRangeArg(arg) /\ ~(1 <= a /\ a <= b /\ b <= Len(L))
              /\ RefactorLinesStepOn(nid, arg, env))
             => notes' = notes]_vars

\* C23: the command loop ends only on exit, quit, end of input or
\* interrupt at the prompt: every other step of a running loop, a malformed
\* sub-command included, leaves the loop running.  (The exception leaving
\* llm_query is C21's and is set aside here.)
C23_LoopEndsOnlyOnExit ==
    [][(running /\ ~running' /\ out' # <<"Exception">>)
          => out' \in {<<m>> : m \in ReplFarewells}]_vars
====
